---- MODULE Spec2Model ----
(***************************************************************************)
(* A model of src/copulamnsig.py: the grid partition (_makeCoordsList),    *)
(* the theoretical signature (copulamnsig), the empirical signature        *)
(* (empirical_copulamnsig) and the family selection (optimalCopulaFamily). *)
(*                                                                         *)
(* Four specifications share the variables:                               *)
(*   Spec      optimalCopulaFamily, one action per loop iteration, then    *)
(*             the minimum search and the return statement;                *)
(*   SpecGrid  copulamnsig(family, K, 'kendall', tau) followed by the zero *)
(*             substitution and the KL call of one loop iteration of       *)
(*             optimalCopulaFamily (lines 271-277);                        *)
(*   SpecEmp   empirical_copulamnsig(X, K).                                *)
(*   SpecMap   copulamnsig and then empirical_copulamnsig on the same K,   *)
(*             the volume primitive being the sample's own distribution.   *)
(*                                                                         *)
(* Numbers.  Kendall's tau is kept in hundredths (-5 is -0.05, 100 is 1).  *)
(* Coordinates of the unit square live on an integer lattice on which      *)
(* machine epsilon is Eps points wide and one grid interval is Span points *)
(* wide, so that 0 is 0, eps is Eps, 1-eps is Eps+K*Span and 1 is          *)
(* 2*Eps+K*Span.  Probability masses are even integers (2*m) so that the   *)
(* odd value Spacing1 stands for np.spacing(1), positive and smaller than  *)
(* every non-zero mass.  An empirical mass is kept as its number of 1/M    *)
(* increments.  External collaborators (cvolume, entropy, kendalls_tau,    *)
(* invcopulastat) are not interpreted: their results are inputs and their  *)
(* arguments are recorded.                                                 *)
(***************************************************************************)
EXTENDS Integers, Sequences, FiniteSets, TLC

(* ------------------------------ bounds -------------------------------- *)
MaxFams == 2
MaxDist == 1
MaxK == 3
NegK == 2
MaxM == 2
MaxN == 2
Eps == 2
Span == 2
MapK == 2

(* ------------------------- program constants -------------------------- *)
DefaultK == 4
TauExclude == -5
TauOne == 100
NearOne == 99
Inf == 1000
Spacing1 == 1

Families == {"Gaussian", "Clayton", "clayton", "Gumbel", "Frank"}
TauValues == {-20, -5, -3, 0, 40, 100}
Dists == 0..MaxDist
Masses == {0, 2}
Unbound == "<unbound>"

SeqsUpTo(S, n) == UNION {[1..k -> S] : k \in 0..n}

(* str.lower() on the family identifiers in use *)
Lower(family) ==
    CASE family = "Gaussian" -> "gaussian"
      [] family = "Clayton" -> "clayton"
      [] family = "clayton" -> "clayton"
      [] family = "Gumbel" -> "gumbel"
      [] family = "Frank" -> "frank"
      [] OTHER -> family

VARIABLES
    op, pc, outcome, K,
    family_search, tau0, asMain, fi, tau_hat, distances, evalLog,
    optimalFamily, result,
    coords_list, vals, mnsig, klP,
    M, N, U, dim1, dim2, row, esig_vec, esig

common == <<op, pc, outcome, K>>
selVars == <<family_search, tau0, asMain, fi, tau_hat, distances, evalLog,
             optimalFamily, result>>
gridVars == <<vals, mnsig, klP>>
empVars == <<M, N, U, dim1, dim2, row, esig_vec, esig>>
vars == <<common, selVars, gridVars, empVars, coords_list>>

EmptyDict == [x \in {} |-> 0]
NoResult == [family |-> Unbound, depParams |-> [family |-> Unbound, tau |-> 0], tau |-> 0]

SelIdle ==
    /\ family_search = <<>> /\ tau0 = 0 /\ asMain = FALSE /\ fi = 1
    /\ tau_hat = 0 /\ distances = EmptyDict /\ evalLog = <<>>
    /\ optimalFamily = Unbound /\ result = NoResult
GridIdle == vals = <<>> /\ mnsig = <<>> /\ klP = <<>>
EmpIdle ==
    /\ M = 0 /\ N = 0 /\ U = <<>> /\ dim1 = 0 /\ dim2 = 0 /\ row = 0
    /\ esig_vec = <<>> /\ esig = <<>>

(* ===================== optimalCopulaFamily ============================ *)

(* the families whose Kendall's tau is restricted (lines 239, 254) *)
Restricted(family) == Lower(family) \in {"clayton", "gumbel"}

(* lines 250-253 and 265-268: the value tau_hat is rebound to *)
Clamp(t) ==
    IF t >= TauExclude /\ t < 0 THEN 0
    ELSE IF t >= TauOne THEN NearOne
    ELSE t

(* distances[family] = value on a dict *)
Put(d, k, v) == [x \in (DOMAIN d) \cup {k} |-> IF x = k THEN v ELSE d[x]]

(* line 282 *)
BetterOrEqual(distance, minDistance) == distance <= minDistance
Better(distance, minDistance) == distance < minDistance

(* lines 280-284 over one iteration order of the dict; optimalFamily is *)
(* left unbound when no entry is below np.inf *)
RECURSIVE MinScan(_, _, _, _, _)
MinScan(order, d, i, minDistance, opt) ==
    IF i > Len(order) THEN opt
    ELSE IF Better(d[order[i]], minDistance)
         THEN MinScan(order, d, i + 1, d[order[i]], order[i])
         ELSE MinScan(order, d, i + 1, minDistance, opt)

(* the orders in which a dict may hand out its keys (iteritems) *)
Orders(S) ==
    {s \in [1..Cardinality(S) -> S] :
        \A i, j \in 1..Cardinality(S) : i # j => s[i] # s[j]}

(* lines 206-233: X has at least two columns and K is the default, so the *)
(* empirical signature of lines 225-228 is computed without error; tau0 is *)
(* the value kendalls_tau(X) returned at line 222 *)
InitSelect ==
    /\ op = "select" /\ pc = "loop" /\ outcome = "running" /\ K = DefaultK
    /\ family_search \in SeqsUpTo(Families, MaxFams)
    /\ tau0 \in TauValues
    /\ asMain \in BOOLEAN
    /\ fi = 1
    /\ tau_hat = tau0
    /\ distances = EmptyDict
    /\ evalLog = <<>>
    /\ optimalFamily = Unbound
    /\ result = NoResult
    /\ coords_list = <<>>
    /\ GridIdle /\ EmpIdle

(* lines 234-277, one iteration of the loop over family_search *)
EvalFamily ==
    /\ op = "select" /\ pc = "loop" /\ fi <= Len(family_search)
    /\ LET family == family_search[fi] IN
        IF Restricted(family) /\ tau_hat < TauExclude
        THEN /\ distances' = Put(distances, family, Inf)
             /\ evalLog' = Append(evalLog,
                    [family |-> family, built |-> FALSE, tau |-> 0, dist |-> Inf])
             /\ tau_hat' = tau_hat
        ELSE \E d \in Dists :
             /\ tau_hat' = (IF Restricted(family) THEN Clamp(tau_hat) ELSE tau_hat)
             /\ distances' = Put(distances, family, d)
             /\ evalLog' = Append(evalLog,
                    [family |-> family, built |-> TRUE, tau |-> tau_hat', dist |-> d])
    /\ fi' = fi + 1
    /\ UNCHANGED <<op, pc, outcome, K, family_search, tau0, asMain,
                   optimalFamily, result, coords_list, gridVars, empVars>>

(* lines 280-284 *)
SearchMin ==
    /\ op = "select" /\ pc = "loop" /\ fi > Len(family_search)
    /\ \E order \in Orders(DOMAIN distances) :
          optimalFamily' = MinScan(order, distances, 1, Inf, Unbound)
    /\ pc' = "invert"
    /\ UNCHANGED <<op, outcome, K, family_search, tau0, asMain, fi, tau_hat,
                   distances, evalLog, result, coords_list, gridVars, empVars>>

(* lines 286-288; invcopulastat is imported only under __main__ (line 413) *)
InvertAndReturn ==
    /\ op = "select" /\ pc = "invert"
    /\ IF ~asMain
       THEN outcome' = "NameError" /\ result' = result
       ELSE IF optimalFamily = Unbound
       THEN outcome' = "UnboundLocalError" /\ result' = result
       ELSE /\ outcome' = "returned"
            /\ result' = [family |-> optimalFamily,
                          depParams |-> [family |-> optimalFamily, tau |-> tau_hat],
                          tau |-> tau_hat]
    /\ pc' = "done"
    /\ UNCHANGED <<op, K, family_search, tau0, asMain, fi, tau_hat, distances,
                   evalLog, optimalFamily, coords_list, gridVars, empVars>>

NextSelect == EvalFamily \/ SearchMin \/ InvertAndReturn

Spec == InitSelect /\ [][NextSelect]_vars

(* ============== _makeCoordsList and copulamnsig ======================= *)

(* the lattice value of 1.0 for resolution k *)
OneAt(k) == 2 * Eps + (IF k >= 1 THEN k ELSE 1) * Span

(* np.linspace(start, stop, num): num points from start to stop included; *)
(* one point is start alone, no point is the empty array *)
Linspace(start, stop, num) ==
    IF num <= 0 THEN <<>>
    ELSE IF num = 1 THEN <<start>>
    ELSE [k \in 1..num |-> start + ((k - 1) * (stop - start)) \div (num - 1)]

(* lines 186-195: the four corners in the order they are appended to x *)
CellCornersSwapped(u1, u2, v1, v2) == << <<u1, v1>>, <<u2, v1>>, <<u1, v2>>, <<u2, v2>> >>
Cell(u1, u2, v1, v2) == << <<u1, v1>>, <<u1, v2>>, <<u2, v1>>, <<u2, v2>> >>

(* lines 180-195: ii over range(0,len(u)-1), jj over range(0,len(v)-1) *)
RECURSIVE CoordsLoop(_, _, _, _, _)
CoordsLoop(u, v, ii, jj, acc) ==
    IF ii >= Len(u) - 1 THEN acc
    ELSE IF jj >= Len(v) - 1 THEN CoordsLoop(u, v, ii + 1, 0, acc)
    ELSE CoordsLoop(u, v, ii, jj + 1,
             Append(acc, Cell(u[ii + 1], u[ii + 2], v[jj + 1], v[jj + 2])))

(* lines 174-197 *)
MakeCoordsList(k) ==
    LET u == Linspace(Eps, OneAt(k) - Eps, k + 1)
        v == Linspace(Eps, OneAt(k) - Eps, k + 1)
    IN CoordsLoop(u, v, 0, 0, <<>>)

(* what a call _makeCoordsList(k) can end in: np.linspace with a negative *)
(* number of points raises ValueError on some numpy releases and returns *)
(* the empty array on others *)
CoordsOutcomes(k) ==
    {[err |-> FALSE, list |-> MakeCoordsList(k)]}
        \cup (IF k + 1 < 0 THEN {[err |-> TRUE, list |-> <<>>]} ELSE {})

(* line 273 on the Python list copulamnsig returns: mnsig==0 compares a *)
(* list with an int and is False, so the assignment is mnsig[False], that *)
(* is mnsig[0] *)
ZeroSubstList(sig) == [sig EXCEPT ![1] = Spacing1]

KValues == (0 - NegK)..MaxK

(* the entry points that run copulamnsig: alone, or followed by *)
(* empirical_copulamnsig on the same K *)
GridOps == {"signature", "mapping"}

(* the mass of the sample U (first column on the u axis, second on the v *)
(* axis) in the rectangle bounded by the four corners handed to cvolume *)
RectMass(u1v1, u1v2, u2v1, u2v2) ==
    2 * Cardinality({r \in 1..M :
            /\ U[r][1] >= u1v1[1] /\ U[r][1] < u2v1[1]
            /\ U[r][2] >= u1v1[2] /\ U[r][2] < u1v2[2]
            /\ U[r][1] < u2v2[1] /\ U[r][2] < u2v2[2]})

(* line 96: what cvolume(family, u1v1, u1v2, u2v1, u2v2, *args) may return *)
(* for a cell: any mass for an unspecified family; for the mapping run the *)
(* family is the sample's own empirical distribution *)
CVolume(coord) ==
    IF op = "mapping"
    THEN {RectMass(coord[1], coord[2], coord[3], coord[4])}
    ELSE Masses

InitGrid ==
    /\ op \in {"partition", "signature"}
    /\ pc = "start" /\ outcome = "running"
    /\ K \in KValues
    /\ coords_list = <<>>
    /\ GridIdle /\ SelIdle /\ EmpIdle

(* a call _makeCoordsList(K), lines 174-197 *)
MakeCoordsCall ==
    /\ op = "partition" /\ pc = "start"
    /\ \E r \in CoordsOutcomes(K) :
          /\ coords_list' = r.list
          /\ outcome' = (IF r.err THEN "ValueError" ELSE "returned")
    /\ pc' = "done"
    /\ UNCHANGED <<op, K, selVars, gridVars, empVars>>

(* copulamnsig lines 80-89 *)
CopulamnsigStart ==
    /\ op \in GridOps /\ pc = "start"
    /\ \E r \in CoordsOutcomes(K) :
          /\ coords_list' = r.list
          /\ outcome' = (IF r.err THEN "ValueError" ELSE outcome)
          /\ pc' = (IF r.err THEN "done" ELSE "cells")
    /\ UNCHANGED <<op, K, selVars, gridVars, empVars>>

(* copulamnsig lines 90-98, one iteration: the volume primitive is called *)
(* on the next cell's corners and its value appended *)
CopulamnsigCell ==
    /\ op \in GridOps /\ pc = "cells" /\ Len(mnsig) < Len(coords_list)
    /\ \E val \in CVolume(coords_list[Len(mnsig) + 1]) :
          /\ vals' = Append(vals, [cell |-> coords_list[Len(mnsig) + 1], val |-> val])
          /\ mnsig' = Append(mnsig, val)
    /\ UNCHANGED <<op, pc, outcome, K, coords_list, klP, selVars, empVars>>

(* copulamnsig line 100 *)
CopulamnsigReturn ==
    /\ op \in GridOps /\ pc = "cells" /\ Len(mnsig) = Len(coords_list)
    /\ pc' = "returned"
    /\ outcome' = "returned"
    /\ UNCHANGED <<op, K, coords_list, selVars, gridVars, empVars>>

(* optimalCopulaFamily line 273, on the list copulamnsig returned *)
ZeroSubst ==
    /\ op = "signature" /\ pc = "returned"
    /\ IF mnsig = <<>>
       THEN /\ outcome' = "IndexError" /\ pc' = "done" /\ mnsig' = mnsig
       ELSE /\ mnsig' = ZeroSubstList(mnsig)
            /\ pc' = "substituted" /\ outcome' = outcome
    /\ UNCHANGED <<op, K, coords_list, vals, klP, selVars, empVars>>

(* optimalCopulaFamily line 277: the vector handed to entropy as pk *)
KLCall ==
    /\ op = "signature" /\ pc = "substituted"
    /\ klP' = mnsig
    /\ pc' = "done"
    /\ UNCHANGED <<op, outcome, K, coords_list, vals, mnsig, selVars, empVars>>

NextGrid ==
    \/ MakeCoordsCall \/ CopulamnsigStart \/ CopulamnsigCell
    \/ CopulamnsigReturn \/ ZeroSubst \/ KLCall

SpecGrid == InitGrid /\ [][NextGrid]_vars

(* ===================== empirical_copulamnsig ========================== *)

(* the values the uniform-margin transform may give a sample: strictly *)
(* between 0 and 1 *)
PseudoObservations(k) == 1..(OneAt(k) - 1)

InCellAxesSwapped(uu, vv, coord) ==
    LET u1 == coord[1][1]
        v1 == coord[1][2]
        u2 == coord[4][1]
        v2 == coord[4][2]
    IN vv >= u1 /\ vv < u2 /\ uu >= v1 /\ uu < v2

(* lines 157-163: the half-open test of a sample against a cell *)
InCell(uu, vv, coord) ==
    LET u1 == coord[1][1]
        v1 == coord[1][2]
        u2 == coord[4][1]
        v2 == coord[4][2]
    IN uu >= u1 /\ uu < u2 /\ vv >= v1 /\ vv < v2

(* lines 156-167: the scan over jj in range(0, n) with break on the first *)
(* match; the 1-based position of the matching cell, 0 when no cell *)
(* matches, -1 when coords[jj] is out of range (IndexError) *)
RECURSIVE ScanCells(_, _, _, _, _)
ScanCells(uu, vv, coords, n, jj) ==
    IF jj >= n THEN 0
    ELSE IF jj >= Len(coords) THEN -1
    ELSE IF InCell(uu, vv, coords[jj + 1]) THEN jj + 1
    ELSE ScanCells(uu, vv, coords, n, jj + 1)

(* np.zeros(n) *)
Zeros(n) == [p \in 1..n |-> 0]

RECURSIVE SumSeq(_)
SumSeq(q) == IF q = <<>> THEN 0 ELSE Head(q) + SumSeq(Tail(q))

InitEmp ==
    /\ op = "empirical" /\ pc = "start" /\ outcome = "running"
    /\ K \in KValues
    /\ M \in 1..MaxM
    /\ N \in 1..MaxN
    /\ U \in [1..M -> [1..N -> PseudoObservations(K)]]
    /\ dim1 = 0 /\ dim2 = 0 /\ row = 0
    /\ esig_vec = <<>> /\ esig = <<>>
    /\ coords_list = <<>>
    /\ SelIdle /\ GridIdle

(* lines 109-124: the grid is built and the loop over pairs entered *)
EmpStart ==
    /\ op = "empirical" /\ pc = "start"
    /\ \E r \in CoordsOutcomes(K) :
          /\ coords_list' = r.list
          /\ outcome' = (IF r.err THEN "ValueError" ELSE outcome)
          /\ pc' = (IF r.err THEN "done" ELSE "pair")
    /\ dim1' = 0 /\ dim2' = 1
    /\ UNCHANGED <<op, K, M, N, U, row, esig_vec, esig, selVars, gridVars>>

(* lines 125-152: the record of the pair (dim1, dim2) is started *)
EmpPairBegin ==
    /\ op = "empirical" /\ pc = "pair" /\ dim1 < N - 1
    /\ esig_vec' = Zeros(K * K)
    /\ row' = 0
    /\ pc' = "rows"
    /\ UNCHANGED <<op, outcome, K, M, N, U, dim1, dim2, esig, coords_list,
                   selVars, gridVars>>

(* lines 154-167, one row ii *)
EmpRow ==
    /\ op = "empirical" /\ pc = "rows" /\ row < M
    /\ LET m == ScanCells(U[row + 1][dim1 + 1], U[row + 1][dim2 + 1],
                          coords_list, K * K, 0)
       IN IF m = -1
          THEN /\ outcome' = "IndexError" /\ pc' = "done"
               /\ UNCHANGED <<row, esig_vec>>
          ELSE /\ esig_vec' = (IF m = 0 THEN esig_vec
                               ELSE [esig_vec EXCEPT ![m] = @ + 1])
               /\ row' = row + 1
               /\ UNCHANGED <<outcome, pc>>
    /\ UNCHANGED <<op, K, M, N, U, dim1, dim2, esig, coords_list,
                   selVars, gridVars>>

(* lines 168-170, and the step of the loops of lines 124-125 *)
EmpPairEnd ==
    /\ op = "empirical" /\ pc = "rows" /\ row = M
    /\ esig' = Append(esig, [rv1 |-> dim1 + 1, rv2 |-> dim2 + 1, esig |-> esig_vec])
    /\ IF dim2 + 1 < N
       THEN dim1' = dim1 /\ dim2' = dim2 + 1
       ELSE dim1' = dim1 + 1 /\ dim2' = dim1 + 2
    /\ pc' = "pair"
    /\ UNCHANGED <<op, outcome, K, M, N, U, row, esig_vec, coords_list,
                   selVars, gridVars>>

(* line 172 *)
EmpReturn ==
    /\ op = "empirical" /\ pc = "pair" /\ dim1 >= N - 1
    /\ outcome' = "returned"
    /\ pc' = "done"
    /\ UNCHANGED <<op, K, M, N, U, dim1, dim2, row, esig_vec, esig, coords_list,
                   selVars, gridVars>>

NextEmp == EmpStart \/ EmpPairBegin \/ EmpRow \/ EmpPairEnd \/ EmpReturn

SpecEmp == InitEmp /\ [][NextEmp]_vars

(* ========= copulamnsig and empirical_copulamnsig on the same K ========= *)

(* the pseudo-observations the mapping run draws per axis: every break *)
(* point below 1-eps and a point strictly inside every grid interval *)
MapSamples(k) ==
    {Eps + j * Span : j \in 0..(k - 1)} \cup {Eps + j * Span + 1 : j \in 0..(k - 1)}

InitMap ==
    /\ op = "mapping" /\ pc = "start" /\ outcome = "running"
    /\ K \in 1..MapK
    /\ M \in 1..MaxM
    /\ N = 2
    /\ U \in [1..M -> [1..N -> MapSamples(K)]]
    /\ dim1 = 0 /\ dim2 = 0 /\ row = 0
    /\ esig_vec = <<>> /\ esig = <<>>
    /\ coords_list = <<>>
    /\ SelIdle /\ GridIdle

(* copulamnsig has returned (line 100); empirical_copulamnsig(X, K) is *)
(* called next on the same K (line 102), the signature being kept *)
CallEmpirical ==
    /\ op = "mapping" /\ pc = "returned"
    /\ op' = "empirical"
    /\ pc' = "start"
    /\ outcome' = "running"
    /\ coords_list' = <<>>
    /\ UNCHANGED <<K, selVars, gridVars, empVars>>

NextMap ==
    \/ CopulamnsigStart \/ CopulamnsigCell \/ CopulamnsigReturn
    \/ CallEmpirical
    \/ EmpStart \/ EmpPairBegin \/ EmpRow \/ EmpPairEnd \/ EmpReturn

SpecMap == InitMap /\ [][NextMap]_vars

(* ------------------- claims on optimalCopulaFamily -------------------- *)

(* the candidates the boundary policy did not exclude *)
Admissible == {f \in DOMAIN distances : distances[f] < Inf}

FirstPos(f) ==
    CHOOSE p \in 1..Len(family_search) :
        /\ family_search[p] = f
        /\ \A q \in 1..(p - 1) : family_search[q] # f

(* C1: whenever optimalCopulaFamily returns, the third component of the *)
(* result is the empirical Kendall's tau computed from X at line 222, not *)
(* a value clamped for Clayton or Gumbel. *)
C1_ReturnedTauIsOriginal ==
    outcome = "returned" => result.tau = tau0

(* C2: every unrestricted family (neither Clayton nor Gumbel) has its *)
(* signature built with the original empirical tau, whatever candidates *)
(* precede it in the list. *)
C2_UnrestrictedBuiltWithOriginalTau ==
    \A p \in 1..Len(evalLog) :
        (evalLog[p].built /\ ~Restricted(evalLog[p].family))
            => evalLog[p].tau = tau0

(* C3: the tau handed to the parameter inversion (invcopulastat) for the *)
(* selected family is the original empirical tau of line 222. *)
C3_InversionAtOriginalTau ==
    outcome = "returned" =>
        /\ result.depParams.family = result.family
        /\ result.depParams.tau = tau0

(* C4: the family returned is a non-excluded candidate of minimal *)
(* divergence, and among candidates sharing the minimal divergence it is *)
(* the one earliest in family_search. *)
C4_ArgminEarliestOnTies ==
    outcome = "returned" =>
        /\ result.family \in Admissible
        /\ \A g \in Admissible :
              /\ distances[result.family] <= distances[g]
              /\ distances[g] = distances[result.family]
                    => FirstPos(result.family) <= FirstPos(g)

(* C5: when the empirical tau is below -0.05, every Clayton and Gumbel *)
(* candidate gets divergence +infinity without its signature being built, *)
(* the loop goes on to the next candidate (every candidate is visited, in *)
(* order), and no such excluded family is selected or returned. *)
C5_ExcludedNeverBuiltNorReturned ==
    tau0 < TauExclude =>
        /\ Len(evalLog) = fi - 1
        /\ \A p \in 1..Len(evalLog) :
              /\ evalLog[p].family = family_search[p]
              /\ Restricted(family_search[p]) =>
                    /\ ~evalLog[p].built
                    /\ evalLog[p].dist = Inf
                    /\ distances[family_search[p]] = Inf
        /\ pc # "loop" => Len(evalLog) = Len(family_search)
        /\ optimalFamily # Unbound => ~Restricted(optimalFamily)
        /\ outcome = "returned" => ~Restricted(result.family)

(* an excluded Clayton/Gumbel candidate is followed by an unrestricted one *)
(* and the call returns *)
C5_Witness ==
    /\ outcome = "returned"
    /\ tau0 < TauExclude
    /\ Len(family_search) = 2
    /\ Restricted(family_search[1])
    /\ ~Restricted(family_search[2])
    /\ distances[family_search[1]] = Inf

(* C6: with no admissible candidate the call ends in a distinguishable *)
(* error outcome: a configuration error for an empty candidate list, "no *)
(* admissible family" when every candidate was excluded. *)
C6_NoAdmissibleIsReportedAsSuch ==
    pc = "done" =>
        /\ family_search = <<>> => outcome = "ConfigurationError"
        /\ (family_search # <<>> /\ Admissible = {})
              => outcome = "NoAdmissibleFamily"

(* --------------- claims on _makeCoordsList and copulamnsig ------------ *)

(* the k-th of the K+1 equally spaced break points from eps to 1-eps *)
BreakPoint(k) == Eps + k * Span

(* C7: a grid resolution K < 1 is rejected: a call with K = 0 or K < 0 *)
(* never returns a cell list or a signature. *)
C7_NonPositiveKRejected ==
    K < 1 => outcome # "returned"

(* C9: for K >= 1 the partition has exactly K*K cells in column-major *)
(* order: position i*K+j (0-based) holds the corners lower-left, *)
(* upper-left, lower-right, upper-right built from horizontal break points *)
(* i, i+1 and vertical break points j, j+1, with u1 < u2 and v1 < v2, and *)
(* the first cell is the bottom-left one. *)
C9_ColumnMajorCells ==
    (K >= 1 /\ pc # "start") =>
        /\ Len(coords_list) = K * K
        /\ coords_list[1][1] = <<Eps, Eps>>
        /\ coords_list[K * K][4] = <<OneAt(K) - Eps, OneAt(K) - Eps>>
        /\ \A i, j \in 0..(K - 1) :
              LET c == coords_list[i * K + j + 1] IN
              /\ c = << <<BreakPoint(i), BreakPoint(j)>>,
                        <<BreakPoint(i), BreakPoint(j + 1)>>,
                        <<BreakPoint(i + 1), BreakPoint(j)>>,
                        <<BreakPoint(i + 1), BreakPoint(j + 1)>> >>
              /\ c[1][1] < c[4][1]
              /\ c[1][2] < c[4][2]

(* _makeCoordsList has returned a grid of several columns and rows *)
C9_Witness ==
    /\ op = "partition" /\ pc = "done" /\ outcome = "returned"
    /\ K >= 2
    /\ Len(coords_list) = K * K

(* C10: the zero substitution changes exactly the zero entries: in the *)
(* vector handed to the KL divergence every entry the volume primitive *)
(* returned as zero is the smallest positive value, and every other entry *)
(* (position 0 included) is the value the volume primitive returned. *)
C10_OnlyZerosSubstituted ==
    (op = "signature" /\ pc = "done" /\ outcome = "returned") =>
        /\ Len(klP) = Len(vals)
        /\ \A p \in 1..Len(vals) :
              klP[p] = (IF vals[p].val = 0 THEN Spacing1 ELSE vals[p].val)

(* ------------------ claims on empirical_copulamnsig ------------------- *)

(* C8: for M >= 1 and K >= 1 every row is counted in exactly one cell: in *)
(* every per-pair record the K*K entries are between 0 and 1 and sum to 1 *)
(* (M increments of 1/M), whatever values the transform gave the samples. *)
C8_EachRowCountedOnce ==
    (op = "empirical" /\ K >= 1) =>
        /\ pc = "rows" => SumSeq(esig_vec) = row
        /\ \A r \in 1..Len(esig) :
              /\ Len(esig[r].esig) = K * K
              /\ SumSeq(esig[r].esig) = M
              /\ \A p \in 1..(K * K) :
                    esig[r].esig[p] >= 0 /\ esig[r].esig[p] <= M

(* --------- claims on the two signatures' cell-to-index mapping -------- *)

(* a sample (uu, vv) lies in the half-open rectangle [u1,u2) x [v1,v2) *)
(* spanned by the lower-left and upper-right of the four corners *)
InRect(uu, vv, corners) ==
    /\ corners[1][1] <= uu /\ uu < corners[4][1]
    /\ corners[1][2] <= vv /\ vv < corners[4][2]

(* the rows of U whose pair (rv1, rv2) lies in the rectangle *)
RowsIn(rv1, rv2, corners) ==
    {r \in 1..M : InRect(U[r][rv1], U[r][rv2], corners)}

(* C11: for K >= 1 and every position p, the rectangle whose volume *)
(* copulamnsig stores at p is the rectangle whose samples *)
(* empirical_copulamnsig counts at p, first variable of the pair on the u *)
(* axis and second on the v axis; a sample set lying entirely inside the *)
(* rectangle of position p puts all the empirical mass at p, and the *)
(* signature of the sample's own distribution equals its empirical vector. *)
C11_SameCellToIndexMapping ==
    (op = "empirical" /\ pc = "done" /\ outcome = "returned") =>
        /\ Len(vals) = K * K
        /\ Len(mnsig) = K * K
        /\ \A p \in 1..(K * K) : vals[p].cell = coords_list[p]
        /\ \A r \in 1..Len(esig) :
              /\ Len(esig[r].esig) = K * K
              /\ \A p \in 1..(K * K) :
                    /\ esig[r].esig[p] =
                          Cardinality(RowsIn(esig[r].rv1, esig[r].rv2, vals[p].cell))
                    /\ RowsIn(esig[r].rv1, esig[r].rv2, vals[p].cell) = 1..M
                          => esig[r].esig = [q \in 1..(K * K) |->
                                                IF q = p THEN M ELSE 0]
                    /\ (esig[r].rv1 = 1 /\ esig[r].rv2 = 2)
                          => mnsig[p] = 2 * esig[r].esig[p]

(* both functions have run on a grid of several columns and rows, and all *)
(* the samples lie in the cell of position 2 (first column, second row) *)
C11_Witness ==
    /\ op = "empirical" /\ pc = "done" /\ outcome = "returned"
    /\ K >= 2 /\ M >= 2
    /\ Len(vals) = K * K
    /\ Len(esig) = 1
    /\ RowsIn(1, 2, vals[2].cell) = 1..M
    /\ esig[1].esig[2] = M
    /\ mnsig[2] = 2 * M

====
